---------------------------- MODULE Spec2Model ----------------------------
(***************************************************************************)
(* A model of custom_components/duux/climate.py: the Duux climate platform *)
(* of Home Assistant.  The state is the device inventory, the snapshot     *)
(* each coordinator holds, the entities the platform has created, and what *)
(* the entities have asked of the API client and of the coordinator.       *)
(*                                                                         *)
(* Python values (the JSON payloads, the service-call arguments) are       *)
(* records of one shape, so that any two of them can be compared:          *)
(*   kind  "none" | "bool" | "int" | "str" | "list" | "dict"               *)
(*   n     the number of an int, 1 or 0 for a bool                         *)
(*   s     the text of a str                                               *)
(*   keys  the keys of a dict, in insertion order                          *)
(*   vals  the values of a dict (beside keys), the items of a list         *)
(***************************************************************************)
EXTENDS Integers, Sequences, FiniteSets, TLC

VARIABLES
    devices,          \* hass.data[DOMAIN][entry_id]["devices"]: the descriptors
    data,             \* data[i]: coordinator.data of devices[i]'s coordinator
    entities,         \* what async_add_entities received (<<>> before setup)
    added,            \* whether async_setup_entry has run
    warnings,         \* the sensorTypeId of every _LOGGER.warning of setup
    apiCount,         \* the number of calls made to the API client
    lastCall,         \* the last call made to the API client, and its end
    refreshCount,     \* the number of coordinator.async_request_refresh calls
    lastOp            \* the last service call an entity handled, and its end

vars == <<devices, data, entities, added, warnings, apiCount, lastCall,
          refreshCount, lastOp>>

---------------------------------------------------------------------------
(* Python values *)

JNone == [kind |-> "none", n |-> 0, s |-> "", keys |-> <<>>, vals |-> <<>>]

JInt(k) == [kind |-> "int", n |-> k, s |-> "", keys |-> <<>>, vals |-> <<>>]

JStr(x) == [kind |-> "str", n |-> 0, s |-> x, keys |-> <<>>, vals |-> <<>>]

JBool(b) ==
    [kind |-> "bool", n |-> IF b THEN 1 ELSE 0, s |-> "", keys |-> <<>>,
     vals |-> <<>>]

JList(items) ==
    [kind |-> "list", n |-> 0, s |-> "", keys |-> <<>>, vals |-> items]

JDict(ks, vs) == [kind |-> "dict", n |-> 0, s |-> "", keys |-> ks, vals |-> vs]

IsNone(v) == v.kind = "none"

IsDict(v) == v.kind = "dict"

IsList(v) == v.kind = "list"

\* key in obj
HasKey(obj, key) == \E i \in 1..Len(obj.keys) : obj.keys[i] = key

\* obj[key]
Item(obj, key) ==
    obj.vals[CHOOSE i \in 1..Len(obj.keys) : obj.keys[i] = key]

\* obj.get(key, default)
GetOr(obj, key, default) == IF HasKey(obj, key) THEN Item(obj, key) ELSE default

\* obj.get(key)
Get(obj, key) == GetOr(obj, key, JNone)

\* bool(v): the truth value Python's "or", "and", "if" and "not" test
Truthy(v) ==
    CASE v.kind = "none" -> FALSE
      [] v.kind = "bool" -> v.n = 1
      [] v.kind = "int"  -> v.n # 0
      [] v.kind = "str"  -> v.s # ""
      [] v.kind = "list" -> Len(v.vals) > 0
      [] v.kind = "dict" -> Len(v.keys) > 0

\* a or b
PyOr(a, b) == IF Truthy(a) THEN a ELSE b

\* a == b: a bool is the integer 1 or 0; values of other kinds are equal
\* only to values of their own kind
PyEq(a, b) ==
    CASE a.kind \in {"int", "bool"} /\ b.kind \in {"int", "bool"} -> a.n = b.n
      [] a.kind = "str" /\ b.kind = "str" -> a.s = b.s
      [] a.kind = "none" /\ b.kind = "none" -> TRUE
      [] a.kind \in {"list", "dict"} /\ b.kind = a.kind -> a = b
      [] OTHER -> FALSE

Digit(d) ==
    CASE d = 0 -> "0" [] d = 1 -> "1" [] d = 2 -> "2" [] d = 3 -> "3"
      [] d = 4 -> "4" [] d = 5 -> "5" [] d = 6 -> "6" [] d = 7 -> "7"
      [] d = 8 -> "8" [] d = 9 -> "9"

RECURSIVE NatToStr(_)
NatToStr(k) == IF k < 10 THEN Digit(k) ELSE NatToStr(k \div 10) \o Digit(k % 10)

\* str(k) of an int
IntToStr(k) == IF k < 0 THEN "-" \o NatToStr(0 - k) ELSE NatToStr(k)

RECURSIVE Repr(_)
RECURSIVE ReprItems(_, _, _)
\* repr(v); a str's quotes are the single quotes of a text that holds none
Repr(v) ==
    CASE v.kind = "none" -> "None"
      [] v.kind = "bool" -> IF v.n = 1 THEN "True" ELSE "False"
      [] v.kind = "int"  -> IntToStr(v.n)
      [] v.kind = "str"  -> "'" \o v.s \o "'"
      [] v.kind = "list" -> "[" \o ReprItems(<<>>, v.vals, 1) \o "]"
      [] v.kind = "dict" -> "{" \o ReprItems(v.keys, v.vals, 1) \o "}"

ReprItems(ks, vs, i) ==
    IF i > Len(vs) THEN ""
    ELSE (IF i > 1 THEN ", " ELSE "")
         \o (IF Len(ks) > 0 THEN "'" \o ks[i] \o "': " ELSE "")
         \o Repr(vs[i]) \o ReprItems(ks, vs, i + 1)

\* str(v), and what an f-string puts for {v}
Str(v) == IF v.kind = "str" THEN v.s ELSE Repr(v)

---------------------------------------------------------------------------
(* Home Assistant's constants, as climate.py imports them *)

PRESET_ECO == "eco"

PRESET_COMFORT == "comfort"

PRESET_BOOST == "boost"

HVAC_HEAT == "heat"

HVAC_OFF == "off"

---------------------------------------------------------------------------
(* DuuxClimateAutoDiscovery: preset discovery *)

RECURSIVE _deep_find(_, _)
RECURSIVE DeepFindEach(_, _, _)
\* Mutation of _deep_find: a dict's own entry is yielded after what its
\* values yield
DeepFindChildrenFirst(obj, key) ==
    IF IsDict(obj)
    THEN DeepFindEach(obj.vals, key, 1)
         \o (IF HasKey(obj, key) THEN <<Item(obj, key)>> ELSE <<>>)
    ELSE IF IsList(obj) THEN DeepFindEach(obj.vals, key, 1)
    ELSE <<>>

\* Every value the generator yields, in the order it yields them: a dict's
\* own entry for the key, then what each of its values yields; for a list,
\* what each item yields.
_deep_find(obj, key) ==
    IF IsDict(obj)
    THEN (IF HasKey(obj, key) THEN <<Item(obj, key)>> ELSE <<>>)
         \o DeepFindEach(obj.vals, key, 1)
    ELSE IF IsList(obj) THEN DeepFindEach(obj.vals, key, 1)
    ELSE <<>>

\* for value in values: yield from _deep_find(value, key)
DeepFindEach(values, key, i) ==
    IF i > Len(values) THEN <<>>
    ELSE _deep_find(values[i], key) \o DeepFindEach(values, key, i + 1)

\* next(iterator, None)
NextOrNone(yielded) == IF Len(yielded) > 0 THEN yielded[1] ELSE JNone

\* DuuxClimateAutoDiscovery._normalize_mode_name
AutoNormalizeModeName(name, value) == name

\* Mutation of ThreesixtyNormalizeModeName: the labels of "2" and "0" swapped
ThreesixtyNormalizeSwapped(name, value) ==
    IF ~IsNone(value) /\ PyEq(value, JStr("2")) THEN JStr(PRESET_BOOST)
    ELSE IF ~IsNone(value) /\ PyEq(value, JStr("1")) THEN JStr(PRESET_COMFORT)
    ELSE IF ~IsNone(value) /\ PyEq(value, JStr("0")) THEN JStr(PRESET_ECO)
    ELSE name

\* DuuxThreesixtyBase._normalize_mode_name
ThreesixtyNormalizeModeName(name, value) ==
    IF ~IsNone(value) /\ PyEq(value, JStr("2")) THEN JStr(PRESET_ECO)
    ELSE IF ~IsNone(value) /\ PyEq(value, JStr("1")) THEN JStr(PRESET_COMFORT)
    ELSE IF ~IsNone(value) /\ PyEq(value, JStr("0")) THEN JStr(PRESET_BOOST)
    ELSE name

IsThreesixty(cls) ==
    cls \in {"DuuxThreesixtyClimate", "DuuxThreesixtyTwoClimate"}

\* self._normalize_mode_name(name, value), by the class of self
_normalize_mode_name(cls, name, value) ==
    IF IsThreesixty(cls) THEN ThreesixtyNormalizeModeName(name, value)
    ELSE AutoNormalizeModeName(name, value)

\* The availableModes value discovery starts from: the snapshot's, or, when
\* that is None, the first one found in the device descriptor.
ResolveModes(snapshot, device) ==
    LET top == Get(IF Truthy(snapshot) THEN snapshot ELSE JDict(<<>>, <<>>),
                   "availableModes")
    IN  IF IsNone(top) THEN NextOrNone(_deep_find(device, "availableModes"))
        ELSE top

\* The first candidate of a list that is a dict with a truthy "settings"
SelectCandidate(modes) ==
    LET ok(i) == IsDict(modes.vals[i]) /\ Truthy(Get(modes.vals[i], "settings"))
        hits == {i \in 1..Len(modes.vals) : ok(i)}
    IN  IF ~IsList(modes) THEN modes
        ELSE IF hits = {} THEN JNone
        ELSE modes.vals[CHOOSE i \in hits : \A j \in hits : i <= j]

\* modes.get("command_key") or modes.get("commandKey") or modes.get("key")
CommandPrefix(modes) ==
    PyOr(PyOr(Get(modes, "command_key"), Get(modes, "commandKey")),
         Get(modes, "key"))

SettingName(setting) ==
    PyOr(PyOr(Get(setting, "setting_name"), Get(setting, "settingName")),
         Get(setting, "name"))

SettingValue(setting) ==
    PyOr(PyOr(Get(setting, "setting_value"), Get(setting, "settingValue")),
         Get(setting, "value"))

\* The command of one setting: its own, or "{command_prefix} {value}", or
\* the value
SettingCommand(setting, command_prefix, value) ==
    LET command == Get(setting, "command")
    IN  IF IsNone(command) /\ Truthy(command_prefix) /\ ~IsNone(value)
        THEN JStr(Str(command_prefix) \o " " \o Str(value))
        ELSE IF IsNone(command) THEN value
        ELSE command

\* Mutation of PresetsOf: the test "if name and command is not None" left out
PresetsOfUnguarded(cls, setting, command_prefix) ==
    LET value == SettingValue(setting)
        name == _normalize_mode_name(cls, SettingName(setting), value)
        command == SettingCommand(setting, command_prefix, value)
    IN  IF ~IsDict(setting) THEN <<>>
        ELSE <<[name |-> Str(name), command |-> Str(command),
                value |-> IF IsNone(value) THEN JNone ELSE JStr(Str(value))]>>

\* One pass of the loop over settings: the presets the setting appends
PresetsOf(cls, setting, command_prefix) ==
    LET value == SettingValue(setting)
        name == _normalize_mode_name(cls, SettingName(setting), value)
        command == SettingCommand(setting, command_prefix, value)
    IN  IF ~IsDict(setting) THEN <<>>
        ELSE IF Truthy(name) /\ ~IsNone(command)
        THEN <<[name |-> Str(name), command |-> Str(command),
                value |-> IF IsNone(value) THEN JNone ELSE JStr(Str(value))]>>
        ELSE <<>>

RECURSIVE PresetsLoop(_, _, _, _)
PresetsLoop(cls, settings, command_prefix, i) ==
    IF i > Len(settings) THEN <<>>
    ELSE PresetsOf(cls, settings[i], command_prefix)
         \o PresetsLoop(cls, settings, command_prefix, i + 1)

\* presets_discovery from the availableModes value it resolved
PresetsFromModes(cls, resolved) ==
    LET modes == SelectCandidate(resolved)
        settings == Get(modes, "settings")
    IN  IF ~IsDict(modes) THEN <<>>
        ELSE IF ~IsList(settings) THEN <<>>
        ELSE PresetsLoop(cls, settings.vals, CommandPrefix(modes), 1)

\* DuuxClimateAutoDiscovery.presets_discovery, of an entity of class cls
\* whose coordinator holds snapshot and whose descriptor is device
presets_discovery(cls, snapshot, device) ==
    PresetsFromModes(cls, ResolveModes(snapshot, device))

---------------------------------------------------------------------------
(* The entities *)

IsAutoDiscovery(cls) == cls = "DuuxClimateAutoDiscovery" \/ IsThreesixty(cls)

\* Mutation of EntityClass: the branch of 31 left out
EntityClassNo31(sensor_type_id) ==
    IF PyEq(sensor_type_id, JInt(49)) THEN "DuuxThreesixtyClimate"
    ELSE IF PyEq(sensor_type_id, JInt(50)) THEN "DuuxEdgeClimate"
    ELSE "DuuxClimateAutoDiscovery"

\* The entity class async_setup_entry picks for a sensorTypeId
EntityClass(sensor_type_id) ==
    IF PyEq(sensor_type_id, JInt(49)) THEN "DuuxThreesixtyClimate"
    ELSE IF PyEq(sensor_type_id, JInt(50)) THEN "DuuxEdgeClimate"
    ELSE IF PyEq(sensor_type_id, JInt(31)) THEN "DuuxThreesixtyTwoClimate"
    ELSE "DuuxClimateAutoDiscovery"

\* cls(coordinator, api, device): the fields __init__ sets
NewEntity(cls, snapshot, device) ==
    [cls |-> cls,
     _device_mac |-> Item(device, "deviceId"),
     _attr_min_temp |-> IF cls = "DuuxEdgeClimate" THEN 5 ELSE 18,
     _attr_max_temp |-> IF cls = "DuuxEdgeClimate" THEN 36 ELSE 30,
     _presets |-> IF IsAutoDiscovery(cls)
                  THEN presets_discovery(cls, snapshot, device)
                  ELSE <<>>]

\* Mutation of hvac_mode: HEAT for any truthy power
HvacModeTruthy(snapshot) ==
    IF Truthy(GetOr(snapshot, "power", JInt(0))) THEN HVAC_HEAT ELSE HVAC_OFF

\* DuuxClimate.hvac_mode
hvac_mode(snapshot) ==
    IF PyEq(GetOr(snapshot, "power", JInt(0)), JInt(1)) THEN HVAC_HEAT
    ELSE HVAC_OFF

\* DuuxClimateAutoDiscovery.preset_mode: the name of the first preset whose
\* value is str(mode), or None
AutoPresetMode(presets, snapshot) ==
    LET mode == Get(snapshot, "mode")
        hits == {i \in 1..Len(presets) :
                    PyEq(presets[i].value, JStr(Str(mode)))}
    IN  IF hits = {} THEN JNone
        ELSE JStr(presets[CHOOSE i \in hits : \A j \in hits : i <= j].name)

\* Mutation of EdgePresetMode: the labels of 2 and 3 swapped
EdgePresetModeSwapped(snapshot) ==
    LET mode == Get(snapshot, "heatin")
    IN  IF PyEq(mode, JInt(1)) THEN JStr(PRESET_ECO)
        ELSE IF PyEq(mode, JInt(2)) THEN JStr(PRESET_BOOST)
        ELSE IF PyEq(mode, JInt(3)) THEN JStr(PRESET_COMFORT)
        ELSE JStr(PRESET_ECO)

\* DuuxEdgeClimate.preset_mode: mode_map.get(mode, self.PRESET_LOW)
EdgePresetMode(snapshot) ==
    LET mode == Get(snapshot, "heatin")
    IN  IF PyEq(mode, JInt(1)) THEN JStr(PRESET_ECO)
        ELSE IF PyEq(mode, JInt(2)) THEN JStr(PRESET_COMFORT)
        ELSE IF PyEq(mode, JInt(3)) THEN JStr(PRESET_BOOST)
        ELSE JStr(PRESET_ECO)

\* entity.preset_mode
preset_mode(entity, snapshot) ==
    IF entity.cls = "DuuxEdgeClimate" THEN EdgePresetMode(snapshot)
    ELSE AutoPresetMode(entity._presets, snapshot)

RECURSIVE Names(_, _)
Names(presets, i) ==
    IF i > Len(presets) THEN <<>>
    ELSE <<presets[i].name>> \o Names(presets, i + 1)

\* entity.preset_modes
preset_modes(entity) ==
    IF entity.cls = "DuuxEdgeClimate"
    THEN <<PRESET_ECO, PRESET_COMFORT, PRESET_BOOST>>
    ELSE Names(entity._presets, 1)

\* DuuxEdgeClimate.async_set_preset_mode: mode_map.get(preset_mode, 1)
EdgeModeCode(name) ==
    IF PyEq(name, JStr(PRESET_ECO)) THEN JStr("1")
    ELSE IF PyEq(name, JStr(PRESET_COMFORT)) THEN JStr("2")
    ELSE IF PyEq(name, JStr(PRESET_BOOST)) THEN JStr("3")
    ELSE JInt(1)

\* The presets of the cached list the loop of async_set_preset_mode stops
\* at for a name: the indices whose name equals it
NamedPresets(presets, name) ==
    {i \in 1..Len(presets) : PyEq(JStr(presets[i].name), name)}

\* Mutation of LookupPreset: the loop without its break stops at the last
\* match
LookupLast(presets, name) ==
    CHOOSE i \in NamedPresets(presets, name) :
        \A j \in NamedPresets(presets, name) : j <= i

\* The preset whose command the loop leaves in mode_command: it breaks at
\* the first match
LookupPreset(presets, name) ==
    CHOOSE i \in NamedPresets(presets, name) :
        \A j \in NamedPresets(presets, name) : i <= j

---------------------------------------------------------------------------
(* What the handlers leave behind *)

NoCall == [fn |-> "", mac |-> JNone, arg |-> JNone, raised |-> FALSE]

NoOp == [op |-> "", i |-> 0, arg |-> JNone, result |-> ""]

\* How a call of the API client ends: it returns, or it raises
Outcomes == {"ok", "raised"}

\* Mutation of Returned: the refresh in a finally clause
ReturnedAlways(outcome) == TRUE

\* await self.hass.async_add_executor_job(...): the statements after it run
\* when the job returns; what the job raises leaves the handler
Returned(outcome) == outcome = "ok"

\* The state after a handler of entity i has called fn(mac, arg) of the API
\* client and, the call returned, asked the coordinator for a refresh
CallThenRefresh(i, op, oparg, fn, arg, outcome) ==
    /\ apiCount' = apiCount + 1
    /\ lastCall' = [fn |-> fn, mac |-> entities[i]._device_mac, arg |-> arg,
                    raised |-> outcome = "raised"]
    /\ refreshCount' =
           IF Returned(outcome)
           THEN [refreshCount EXCEPT ![i] = @ + 1]
           ELSE refreshCount
    /\ lastOp' = [op |-> op, i |-> i, arg |-> oparg,
                  result |-> IF Returned(outcome) THEN "ok" ELSE "raised"]

\* The state after a handler of entity i that ended before any call
EndedEarly(i, op, oparg, result) ==
    /\ lastOp' = [op |-> op, i |-> i, arg |-> oparg, result |-> result]
    /\ UNCHANGED <<apiCount, lastCall, refreshCount>>

\* Mutation of ModeCommand: mode_command bound to "" before the loop
ModeCommandDefault(presets, name) ==
    IF NamedPresets(presets, name) = {} THEN JStr("")
    ELSE JStr(presets[LookupPreset(presets, name)].command)

\* mode_command after the loop of DuuxClimateAutoDiscovery.
\* async_set_preset_mode: the command of the first preset of that name;
\* None stands for the local the loop never bound
ModeCommand(presets, name) ==
    IF NamedPresets(presets, name) = {} THEN JNone
    ELSE JStr(presets[LookupPreset(presets, name)].command)

---------------------------------------------------------------------------
(* The inputs: payloads, descriptors and service calls, from bounded sets *)

\* The most devices of an inventory
MaxDevices == 2

\* The most settings of an availableModes payload
MaxSettings == 2

\* The deepest nesting of a descriptor's metadata
MaxDepth == 2

\* The most calls of the API client, and the most refresh requests of a
\* coordinator, a run makes
MaxCalls == 2

\* A key a payload does not hold: MkDict leaves the entry out
Absent == [kind |-> "absent", n |-> 0, s |-> "", keys |-> <<>>, vals |-> <<>>]

RECURSIVE Present(_, _, _)
\* The indices of the entries that are not Absent, in order
Present(vs, i, acc) ==
    IF i > Len(vs) THEN acc
    ELSE Present(vs, i + 1, IF vs[i] = Absent THEN acc ELSE Append(acc, i))

\* The dict of the entries ks[i]: vs[i] that are not Absent, in that order
MkDict(ks, vs) ==
    LET idx == Present(vs, 1, <<>>)
    IN  JDict([j \in 1..Len(idx) |-> ks[idx[j]]],
              [j \in 1..Len(idx) |-> vs[idx[j]]])

\* The sequences over S of length at most k
SeqsUpTo(S, k) == UNION {[1..m -> S] : m \in 0..k}

NameKeys == {"setting_name", "settingName", "name"}

ValueKeys == {"setting_value", "settingValue", "value"}

\* One setting of an availableModes payload
OneSetting(nk, nv, vk, vv, command) ==
    MkDict(<<nk, vk, "command">>, <<nv, vv, command>>)

\* An availableModes payload: a command prefix under one of its keys, and
\* the settings
Modes(pk, prefix, settings) ==
    MkDict(<<pk, "settings">>, <<prefix, JList(settings)>>)

\* Settings that name and value themselves under each alias; settings with
\* and without a name, a value, a command; settings whose first alias is
\* falsy or shadows a later one; settings that are no dict
SettingSet ==
    {OneSetting(nk, JStr("Eco"), vk, JStr("2"), Absent) :
        nk \in NameKeys, vk \in ValueKeys}
    \cup {OneSetting("name", nv, "value", vv, command) :
            nv \in {Absent, JStr(""), JStr("Boost")},
            vv \in {Absent, JStr("0"), JInt(1)},
            command \in {Absent, JStr("fan 3")}}
    \cup {MkDict(<<"setting_name", "name", "setting_value", "value">>,
                 <<JStr(""), JStr("Eco"), JInt(0), JStr("2")>>),
          MkDict(<<"setting_name", "name", "setting_value", "value">>,
                 <<JStr("A"), JStr("B"), JStr("1"), JStr("2")>>),
          JStr("x"), JNone}

PrefixSet ==
    {<<"command_key", JStr("tune")>>, <<"commandKey", JStr("set")>>,
     <<"key", JStr("")>>}

\* A descriptor of the inventory: devices[i] is Device(i, ...)
Device(i, sensor_type_id, metadata) ==
    MkDict(<<"id", "deviceId", "displayName", "sensorTypeId", "sensorType",
             "availableModes">>,
           <<JInt(i), JStr("mac" \o IntToStr(i)), JStr("Heater"),
             sensor_type_id, metadata.sensorType, metadata.availableModes>>)

NoMetadata ==
    [sensorType |-> JDict(<<"name">>, <<JStr("Duux")>>), availableModes |-> Absent]

\* A snapshot: the keys the entities read
Snapshot(power, mode, heatin, modes) ==
    MkDict(<<"temp", "sp", "power", "mode", "heatin", "availableModes">>,
           <<JInt(19), JInt(21), power, mode, heatin, modes>>)

\* The payload of the example: eco, comfort and boost by value
ThreeModes ==
    Modes("command_key", JStr("tune"),
          <<OneSetting("name", JStr("Eco"), "value", JStr("2"), Absent),
            OneSetting("name", JStr("Comfort"), "value", JStr("1"), Absent),
            OneSetting("name", JStr("Boost"), "value", JStr("0"), Absent)>>)

\* A payload with one name (and one value) twice, under two commands
DupModes ==
    Modes("command_key", JStr("tune"),
          <<OneSetting("name", JStr("Dup"), "value", JStr("2"), JStr("fan 1")),
            OneSetting("name", JStr("Dup"), "value", JStr("2"), JStr("fan 2")),
            OneSetting("name", JStr("Solo"), "value", JStr("7"), Absent)>>)

\* A list of candidates none of which has settings
NoCandidate ==
    JList(<<JDict(<<"settings">>, <<JList(<<>>)>>),
            JDict(<<"other">>, <<JInt(1)>>)>>)

\* A payload whose one preset is named tag
Tagged(tag) ==
    Modes("key", Absent, <<OneSetting("name", JStr(tag), "value", JStr("v"), Absent)>>)

\* What a descriptor may hold under availableModes
ModeVals == {Tagged("A"), Tagged("B"), NoCandidate, JNone}

RECURSIVE Trees(_)
\* The metadata of a descriptor, nested to depth d: dicts that hold
\* availableModes before or after another key, and lists
Trees(d) ==
    IF d = 0 THEN {JInt(7)}
    ELSE LET sub == Trees(d - 1)
         IN  sub
             \cup {MkDict(<<"a", "availableModes">>, <<x, m>>) :
                     x \in sub \cup {Absent}, m \in ModeVals \cup {Absent}}
             \cup {MkDict(<<"availableModes", "a">>, <<m, x>>) :
                     x \in sub \cup {Absent}, m \in ModeVals \cup {Absent}}
             \cup {JList(<<x>>) : x \in sub}
             \cup {JList(<<x, JDict(<<"availableModes">>, <<m>>)>>) :
                     x \in sub, m \in ModeVals}

\* The sensorTypeId of a descriptor
SensorTypeIds ==
    {Absent, JNone, JInt(31), JInt(49), JInt(50), JInt(999), JStr("49")}

\* The snapshots a coordinator may hold after a refresh
Snapshots ==
    {Snapshot(power, Absent, Absent, Absent) :
        power \in {Absent, JNone, JInt(0), JInt(1), JInt(2), JBool(TRUE),
                   JBool(FALSE)}}
    \cup {Snapshot(JInt(1), Absent, heatin, Absent) :
            heatin \in {JNone, JInt(1), JInt(2), JInt(3), JInt(4), JStr("2")}}
    \cup {Snapshot(JInt(1), mode, JInt(1), modes) :
            mode \in {JInt(2), JStr("7")},
            modes \in {ThreeModes, DupModes}}

\* What a service call may pass
Temperatures == {JNone, JInt(21)}

HvacModes == {JStr(HVAC_HEAT), JStr(HVAC_OFF), JStr("auto")}

PresetNames ==
    {JStr(PRESET_ECO), JStr(PRESET_COMFORT), JStr(PRESET_BOOST), JStr("Dup"),
     JStr("away")}

---------------------------------------------------------------------------
(* The operations *)

\* The sensorTypeId for which async_setup_entry takes its else branch
IsUnknownType(sensor_type_id) ==
    ~(\/ PyEq(sensor_type_id, JInt(49))
      \/ PyEq(sensor_type_id, JInt(50))
      \/ PyEq(sensor_type_id, JInt(31)))

RECURSIVE SetupWarnings(_, _)
\* The warnings of the loop of async_setup_entry, from device i on
SetupWarnings(devs, i) ==
    IF i > Len(devs) THEN <<>>
    ELSE (IF IsUnknownType(Get(devs[i], "sensorTypeId"))
          THEN <<Get(devs[i], "sensorTypeId")>> ELSE <<>>)
         \o SetupWarnings(devs, i + 1)

\* async_setup_entry
SetupEntry ==
    /\ ~added
    /\ entities' =
           [i \in 1..Len(devices) |->
               NewEntity(EntityClass(Get(devices[i], "sensorTypeId")),
                         data[i], devices[i])]
    /\ warnings' = SetupWarnings(devices, 1)
    /\ added' = TRUE
    /\ UNCHANGED <<devices, data, apiCount, lastCall, refreshCount, lastOp>>

\* The coordinator of device i replaces its snapshot
Refresh(i) ==
    /\ added
    /\ \E snapshot \in Snapshots : data' = [data EXCEPT ![i] = snapshot]
    /\ UNCHANGED <<devices, entities, added, warnings, apiCount, lastCall,
                   refreshCount, lastOp>>

\* A handler of entity i may start: the run has calls left
MayCall(i) ==
    /\ added
    /\ i \in 1..Len(entities)
    /\ apiCount < MaxCalls
    /\ refreshCount[i] < MaxCalls

\* DuuxClimate.async_set_temperature
SetTemperature(i, temperature, outcome) ==
    /\ MayCall(i)
    /\ IF IsNone(temperature)
       THEN EndedEarly(i, "set_temperature", temperature, "ok")
       ELSE CallThenRefresh(i, "set_temperature", temperature,
                            "set_temperature", temperature, outcome)
    /\ UNCHANGED <<devices, data, entities, added, warnings>>

\* DuuxClimate.async_set_hvac_mode
SetHvacMode(i, mode, outcome) ==
    /\ MayCall(i)
    /\ CallThenRefresh(i, "set_hvac_mode", mode, "set_power",
                       JBool(PyEq(mode, JStr(HVAC_HEAT))), outcome)
    /\ UNCHANGED <<devices, data, entities, added, warnings>>

\* DuuxEdgeClimate.async_set_preset_mode
EdgeSetPresetMode(i, name, outcome) ==
    /\ MayCall(i)
    /\ entities[i].cls = "DuuxEdgeClimate"
    /\ CallThenRefresh(i, "set_preset_mode", name, "set_mode",
                       EdgeModeCode(name), outcome)
    /\ UNCHANGED <<devices, data, entities, added, warnings>>

\* DuuxClimateAutoDiscovery.async_set_preset_mode
AutoSetPresetMode(i, name, outcome) ==
    /\ MayCall(i)
    /\ IsAutoDiscovery(entities[i].cls)
    /\ LET mode_command == ModeCommand(entities[i]._presets, name)
       IN  IF IsNone(mode_command)
           THEN EndedEarly(i, "set_preset_mode", name, "UnboundLocalError")
           ELSE CallThenRefresh(i, "set_preset_mode", name, "send_command",
                                JStr("tune set " \o Str(mode_command)),
                                outcome)
    /\ UNCHANGED <<devices, data, entities, added, warnings>>

\* Mutation of AsyncUpdate: the update derives the presets again
AsyncUpdateRederive(i) ==
    /\ MayCall(i)
    /\ refreshCount' = [refreshCount EXCEPT ![i] = @ + 1]
    /\ lastOp' = [op |-> "update", i |-> i, arg |-> JNone, result |-> "ok"]
    /\ entities' =
           [entities EXCEPT ![i]._presets =
               IF IsAutoDiscovery(entities[i].cls)
               THEN presets_discovery(entities[i].cls, data[i], devices[i])
               ELSE @]
    /\ UNCHANGED <<devices, data, added, warnings, apiCount, lastCall>>

\* DuuxClimate.async_update
AsyncUpdate(i) ==
    /\ MayCall(i)
    /\ refreshCount' = [refreshCount EXCEPT ![i] = @ + 1]
    /\ lastOp' = [op |-> "update", i |-> i, arg |-> JNone, result |-> "ok"]
    /\ UNCHANGED <<devices, data, entities, added, warnings, apiCount,
                   lastCall>>

---------------------------------------------------------------------------
(* The specifications *)

\* What no operation has touched yet
Untouched ==
    /\ entities = <<>>
    /\ added = FALSE
    /\ warnings = <<>>
    /\ apiCount = 0
    /\ lastCall = NoCall
    /\ refreshCount = [i \in 1..Len(devices) |-> 0]
    /\ lastOp = NoOp

\* One device of any of the types, with or without presets in its
\* descriptor, whose coordinator holds no snapshot yet or one with or
\* without presets
Init ==
    /\ \E sensor_type_id \in {Absent, JInt(31), JInt(49), JInt(50), JInt(999)},
          nested \in {Absent, DupModes} :
          devices = <<Device(1, sensor_type_id,
                             [sensorType |-> MkDict(<<"name", "availableModes">>,
                                                    <<JStr("Duux"), nested>>),
                              availableModes |-> Absent])>>
    /\ \E snapshot \in {JNone} \cup
                       {Snapshot(JInt(1), JInt(2), JInt(1), modes) :
                           modes \in {Absent, ThreeModes, DupModes}} :
          data = <<snapshot>>
    /\ Untouched

Next ==
    \/ SetupEntry
    \/ \E i \in 1..Len(devices) : Refresh(i)
    \/ \E i \in 1..Len(devices), temperature \in Temperatures,
          outcome \in Outcomes : SetTemperature(i, temperature, outcome)
    \/ \E i \in 1..Len(devices), mode \in HvacModes, outcome \in Outcomes :
          SetHvacMode(i, mode, outcome)
    \/ \E i \in 1..Len(devices), name \in PresetNames, outcome \in Outcomes :
          EdgeSetPresetMode(i, name, outcome)
    \/ \E i \in 1..Len(devices), name \in PresetNames, outcome \in Outcomes :
          AutoSetPresetMode(i, name, outcome)
    \/ \E i \in 1..Len(devices) : AsyncUpdate(i)

\* An installation of one device and the service calls of its entity
Spec == Init /\ [][Next]_vars

\* An inventory of up to MaxDevices devices of every sensorTypeId
InitSetup ==
    /\ \E m \in 0..MaxDevices :
          \E types \in [1..m -> SensorTypeIds],
             snaps \in [1..m -> {JNone,
                                 Snapshot(JInt(1), JInt(2), JInt(1), ThreeModes)}] :
             /\ devices = [i \in 1..m |-> Device(i, types[i], NoMetadata)]
             /\ data = snaps
    /\ Untouched

NextSetup == SetupEntry

\* Setup alone, of inventories of several devices
SpecSetup == InitSetup /\ [][NextSetup]_vars

\* A Threesixty or a generic device whose snapshot holds a payload of up to
\* MaxSettings settings
InitPresets ==
    /\ \E sensor_type_id \in {JInt(49), JInt(999)} :
          devices = <<Device(1, sensor_type_id, NoMetadata)>>
    /\ \E prefix \in PrefixSet, settings \in SeqsUpTo(SettingSet, MaxSettings) :
          data = <<Snapshot(JInt(1), Absent, Absent,
                            Modes(prefix[1], prefix[2], settings))>>
    /\ Untouched

\* Setup alone, of one device, over the payloads of preset discovery
SpecPresets == InitPresets /\ [][NextSetup]_vars

\* A device whose descriptor nests availableModes to depth MaxDepth, and
\* whose snapshot has none, has None, or has its own
InitDeepFind ==
    /\ \E sensor_type_id \in {JInt(31), JInt(999)},
          tree \in Trees(MaxDepth), top \in ModeVals \cup {Absent} :
          devices = <<Device(1, sensor_type_id,
                             [sensorType |-> tree, availableModes |-> top])>>
    /\ \E snapshot \in {JNone,
                        Snapshot(JInt(1), Absent, Absent, Absent),
                        Snapshot(JInt(1), Absent, Absent, JNone),
                        Snapshot(JInt(1), Absent, Absent, Tagged("S"))} :
          data = <<snapshot>>
    /\ Untouched

\* Setup alone, of one device, over the descriptors preset discovery
\* searches
SpecDeepFind == InitDeepFind /\ [][NextSetup]_vars

---------------------------------------------------------------------------
(* The claims *)

\* The entities that exist
Entities == IF added THEN 1..Len(entities) ELSE {}

\* The power field of a snapshot is a bool or an int other than zero
PowerNonzero(snapshot) ==
    /\ HasKey(snapshot, "power")
    /\ Item(snapshot, "power").kind \in {"bool", "int"}
    /\ Item(snapshot, "power").n # 0

\* The power field of a snapshot is 1 or True
PowerIsOne(snapshot) ==
    /\ HasKey(snapshot, "power")
    /\ Item(snapshot, "power").kind \in {"bool", "int"}
    /\ Item(snapshot, "power").n = 1

\* C1 as claimed: for every snapshot, hvac_mode is HEAT when the power
\* field is nonzero (a bool or an int), and OFF otherwise, also when the
\* field is absent.
C1_Original ==
    \A i \in Entities :
        IsDict(data[i]) =>
            hvac_mode(data[i]) =
                IF PowerNonzero(data[i]) THEN HVAC_HEAT ELSE HVAC_OFF

\* C1 as amended: for every snapshot, hvac_mode is HEAT when the power field
\* equals 1 (the integer 1 or True), and OFF otherwise: for any other
\* number, for None, and when the field is absent.
C1_Theorem ==
    \A i \in Entities :
        IsDict(data[i]) =>
            hvac_mode(data[i]) =
                IF PowerIsOne(data[i]) THEN HVAC_HEAT ELSE HVAC_OFF

\* A snapshot whose power is 2 reads OFF
C1_Witness ==
    \E i \in Entities :
        /\ IsDict(data[i])
        /\ Get(data[i], "power") = JInt(2)
        /\ hvac_mode(data[i]) = HVAC_OFF

\* The operations that change the device
Mutating == {"set_temperature", "set_hvac_mode", "set_preset_mode"}

\* A step of a handler of a mutating operation
MutatingStep ==
    /\ lastOp'.op \in Mutating
    /\ lastOp' # lastOp \/ apiCount' # apiCount

\* C2 as claimed: every mutating operation that issues its API command is
\* followed by a refresh request, whether the command succeeded or failed.
C2_Original ==
    [][MutatingStep /\ apiCount' = apiCount + 1
       => refreshCount'[lastOp'.i] = refreshCount[lastOp'.i] + 1]_vars

\* C2 as amended: a mutating operation requests one refresh when its API
\* command was issued and returned; it requests none when the command
\* raised (the exception leaves the handler) and none when it issued no
\* command.
C2_Theorem ==
    [][MutatingStep
       => /\ refreshCount'[lastOp'.i] =
                 refreshCount[lastOp'.i]
                 + (IF apiCount' = apiCount + 1 /\ ~lastCall'.raised
                    THEN 1 ELSE 0)
          /\ \A j \in 1..Len(refreshCount) :
                 j # lastOp'.i => refreshCount'[j] = refreshCount[j]]_vars

\* A preset was set after another command; each command returned and a
\* refresh request followed each
C2_Witness ==
    /\ lastOp.op = "set_preset_mode"
    /\ lastOp.result = "ok"
    /\ lastCall.fn = "send_command"
    /\ ~lastCall.raised
    /\ apiCount = MaxCalls
    /\ refreshCount[lastOp.i] = MaxCalls

\* The three presets of the Edge and their mode codes
EdgeTable ==
    {<<PRESET_ECO, "1", 1>>, <<PRESET_COMFORT, "2", 2>>, <<PRESET_BOOST, "3", 3>>}

\* The Edge entity i has last been asked for the preset of row
EdgePresetAsked(i, row) ==
    /\ entities[i].cls = "DuuxEdgeClimate"
    /\ lastOp.op = "set_preset_mode"
    /\ lastOp.i = i
    /\ lastOp.arg = JStr(row[1])

\* The heatin a device reports for the mode code it was sent: the number
\* the code denotes
ReportedCode(code) ==
    IF code = JStr("1") THEN JInt(1)
    ELSE IF code = JStr("2") THEN JInt(2)
    ELSE IF code = JStr("3") THEN JInt(3)
    ELSE code

\* C3: on an Edge entity, set preset mode with one of the three labels
\* sends that label's mode code through set_mode, and once the snapshot's
\* heatin is the code the device reports for it, preset_mode is the label.
C3_Theorem ==
    \A i \in Entities : \A row \in EdgeTable :
        EdgePresetAsked(i, row) =>
            /\ lastCall.fn = "set_mode"
            /\ lastCall.mac = entities[i]._device_mac
            /\ lastCall.arg = JStr(row[2])
            /\ ReportedCode(lastCall.arg) = JInt(row[3])
            /\ (IsDict(data[i])
                /\ Get(data[i], "heatin") = ReportedCode(lastCall.arg))
               => preset_mode(entities[i], data[i]) = JStr(row[1])

\* PRESET_HIGH was set, 2 came back, and PRESET_HIGH is read
C3_Witness ==
    \E i \in Entities :
        /\ EdgePresetAsked(i, <<PRESET_COMFORT, "2", 2>>)
        /\ lastOp.result = "ok"
        /\ IsDict(data[i])
        /\ Get(data[i], "heatin") = JInt(2)
        /\ preset_mode(entities[i], data[i]) = JStr(PRESET_COMFORT)

\* The settings of the payload the snapshot of device i holds
SettingsOf(i) == Get(Get(data[i], "availableModes"), "settings").vals

\* A name and a command can be resolved for a setting: it is a dict, one of
\* its name keys (or, on a Threesixty, its value) gives a name, and it has
\* a command or a value
Resolvable(cls, setting) ==
    /\ IsDict(setting)
    /\ \/ \E k \in NameKeys : Truthy(Get(setting, k))
       \/ /\ IsThreesixty(cls)
          /\ \E v \in {"2", "1", "0"} : SettingValue(setting) = JStr(v)
    /\ \/ ~IsNone(Get(setting, "command"))
       \/ \E k \in ValueKeys : ~IsNone(Get(setting, k))

\* C4: every preset discovery produces has a non-empty name and a command
\* that is not none (never the text of None); a setting for which no name
\* or no command can be resolved is left out, so there are as many presets
\* as resolvable settings, and at most as many as settings.
C4_Theorem ==
    \A i \in Entities :
        LET presets == entities[i]._presets
            settings == SettingsOf(i)
        IN  /\ \A k \in 1..Len(presets) :
                   /\ presets[k].name # ""
                   /\ presets[k].name # Str(JNone)
                   /\ presets[k].command # Str(JNone)
            /\ Len(presets) <= Len(settings)
            /\ Len(presets) =
                   Cardinality({j \in 1..Len(settings) :
                                   Resolvable(entities[i].cls, settings[j])})

\* Of two settings, one had no name or no command and was left out
C4_Witness ==
    \E i \in Entities :
        /\ Len(SettingsOf(i)) = 2
        /\ IsDict(SettingsOf(i)[1])
        /\ IsDict(SettingsOf(i)[2])
        /\ Len(entities[i]._presets) = 1

\* The sensorTypeId is the integer k
IsCode(sensor_type_id, k) == sensor_type_id = JInt(k)

\* The class the dispatch table gives a descriptor
TableClass(device) ==
    LET id == Get(device, "sensorTypeId")
    IN  CASE IsCode(id, 49) -> "DuuxThreesixtyClimate"
          [] IsCode(id, 50) -> "DuuxEdgeClimate"
          [] IsCode(id, 31) -> "DuuxThreesixtyTwoClimate"
          [] OTHER -> "DuuxClimateAutoDiscovery"

\* The devices the dispatch table does not know
UnknownDevices ==
    {i \in 1..Len(devices) :
        \A k \in {49, 50, 31} : ~IsCode(Get(devices[i], "sensorTypeId"), k)}

\* C5: setup produces one entity per descriptor, in order, of the class the
\* sensorTypeId selects (49, 50, 31, anything else or nothing: the generic
\* class), with one warning per unknown code, naming it.
C5_Theorem ==
    added =>
        /\ Len(entities) = Len(devices)
        /\ \A i \in 1..Len(devices) :
               /\ entities[i].cls = TableClass(devices[i])
               /\ entities[i]._device_mac = Get(devices[i], "deviceId")
        /\ Len(warnings) = Cardinality(UnknownDevices)
        /\ \A w \in 1..Len(warnings) :
               \E i \in UnknownDevices :
                   /\ warnings[w] = Get(devices[i], "sensorTypeId")
                   /\ Cardinality({j \in UnknownDevices : j < i}) = w - 1

\* A known and an unknown device were set up: two entities, one warning
C5_Witness ==
    /\ added
    /\ Len(devices) = 2
    /\ Get(devices[1], "sensorTypeId") = JInt(999)
    /\ Get(devices[2], "sensorTypeId") = JInt(31)
    /\ entities[1].cls = "DuuxClimateAutoDiscovery"
    /\ entities[2].cls = "DuuxThreesixtyTwoClimate"
    /\ warnings = <<JInt(999)>>

\* The label of a Threesixty for a value
ThreesixtyLabel(v) ==
    CASE v = "2" -> PRESET_ECO [] v = "1" -> PRESET_COMFORT
      [] v = "0" -> PRESET_BOOST

\* C6: on a Threesixty, settings whose values are "2", "1" or "0" give, in
\* the order of the settings, presets named eco, comfort and boost by value,
\* whatever the setting's own name; with a command prefix and no command of
\* its own, a preset's command is "{command_prefix} {value}".
C6_Theorem ==
    \A i \in Entities :
        LET presets == entities[i]._presets
            settings == SettingsOf(i)
            prefix == CommandPrefix(Get(data[i], "availableModes"))
        IN  (/\ IsThreesixty(entities[i].cls)
             /\ \A j \in 1..Len(settings) :
                    /\ IsDict(settings[j])
                    /\ \E v \in {"2", "1", "0"} :
                           SettingValue(settings[j]) = JStr(v))
            => /\ Len(presets) = Len(settings)
               /\ \A j \in 1..Len(settings) :
                      LET v == SettingValue(settings[j]).s
                      IN  /\ presets[j].name = ThreesixtyLabel(v)
                          /\ presets[j].value = JStr(v)
                          /\ (Truthy(prefix) /\ ~HasKey(settings[j], "command"))
                             => presets[j].command = Str(prefix) \o " " \o v

\* The example: Eco "2" and Boost "0" under command_key "tune"
C6_Witness ==
    \E i \in Entities :
        /\ entities[i].cls = "DuuxThreesixtyClimate"
        /\ Get(data[i], "availableModes") =
               JDict(<<"command_key", "settings">>,
                     <<JStr("tune"),
                       JList(<<JDict(<<"name", "value">>,
                                     <<JStr("Eco"), JStr("2")>>),
                               JDict(<<"name", "value">>,
                                     <<JStr("Boost"), JStr("0")>>)>>)>>)
        /\ entities[i]._presets =
               <<[name |-> PRESET_ECO, command |-> "tune 2", value |-> JStr("2")],
                 [name |-> PRESET_BOOST, command |-> "tune 0", value |-> JStr("0")]>>

RECURSIVE NodeAt(_, _)
\* The node of a payload at a path: the indices of the values to descend
\* into, from the root
NodeAt(obj, path) ==
    IF Len(path) = 0 THEN obj ELSE NodeAt(obj.vals[path[1]], Tail(path))

RECURSIVE ContainerPaths(_, _)
\* The paths of the dicts and lists of a payload, from the node at path on
ContainerPaths(obj, path) ==
    IF IsDict(obj) \/ IsList(obj)
    THEN {path} \cup UNION {ContainerPaths(obj.vals[j], Append(path, j)) :
                               j \in 1..Len(obj.vals)}
    ELSE {}

\* The paths of the dicts of a descriptor that hold the key
MatchPaths(device, key) ==
    {path \in ContainerPaths(device, <<>>) :
        IsDict(NodeAt(device, path)) /\ HasKey(NodeAt(device, path), key)}

\* Depth first, a node before what is under it and the values of a node in
\* their order: p comes before q
Before(p, q) ==
    \/ Len(p) < Len(q) /\ \A k \in 1..Len(p) : p[k] = q[k]
    \/ \E k \in 1..Len(p) :
           /\ k <= Len(q)
           /\ p[k] < q[k]
           /\ \A m \in 1..(k - 1) : p[m] = q[m]

\* The place of a key among the keys of a dict
KeyIndex(obj, key) == CHOOSE j \in 1..Len(obj.keys) : obj.keys[j] = key

\* The path of the value a dict at path holds under the key
ValuePath(device, path, key) ==
    Append(path, KeyIndex(NodeAt(device, path), key))

\* The snapshot of device i has no availableModes of its own
NoTopLevelModes(i) == IsNone(Get(data[i], "availableModes"))

\* C7 as claimed: without availableModes in the snapshot, discovery uses,
\* of the values the descriptor holds under availableModes at any depth,
\* the one that comes first when the values are taken depth first, the
\* values of a mapping in insertion order and the items of a list in order.
C7_Original ==
    \A i \in Entities :
        LET matches == MatchPaths(devices[i], "availableModes")
        IN  (NoTopLevelModes(i) /\ matches # {}) =>
                \E p \in matches :
                    /\ \A q \in matches \ {p} :
                           Before(ValuePath(devices[i], p, "availableModes"),
                                  ValuePath(devices[i], q, "availableModes"))
                    /\ entities[i]._presets =
                           PresetsFromModes(entities[i].cls,
                               Item(NodeAt(devices[i], p), "availableModes"))

\* C7 as amended: without availableModes in the snapshot, discovery uses
\* the value of the first mapping, depth first, that has the key
\* availableModes: a mapping's own entry comes before every entry nested in
\* its values, also in values inserted before that entry; all later matches
\* are ignored.
C7_Theorem ==
    \A i \in Entities :
        LET matches == MatchPaths(devices[i], "availableModes")
        IN  (NoTopLevelModes(i) /\ matches # {}) =>
                \E p \in matches :
                    /\ \A q \in matches \ {p} : Before(p, q)
                    /\ entities[i]._presets =
                           PresetsFromModes(entities[i].cls,
                               Item(NodeAt(devices[i], p), "availableModes"))

\* A descriptor with availableModes of its own after a value that nests
\* another: the presets are those of its own
C7_Witness ==
    \E i \in Entities :
        /\ NoTopLevelModes(i)
        /\ HasKey(devices[i], "availableModes")
        /\ Cardinality(MatchPaths(devices[i], "availableModes")) > 1
        /\ Item(devices[i], "availableModes") = Tagged("B")
        /\ Get(Get(devices[i], "sensorType"), "availableModes") = Tagged("A")
        /\ entities[i]._presets =
               PresetsFromModes(entities[i].cls, Tagged("B"))
        /\ Len(entities[i]._presets) = 1

\* The auto-discovery entity i has last sent the command of a preset name
\* its list holds
PresetSent(i) ==
    /\ IsAutoDiscovery(entities[i].cls)
    /\ lastOp.op = "set_preset_mode"
    /\ lastOp.i = i
    /\ lastOp.result \in {"ok", "raised"}

\* The places of a name in the cached list of entity i
PlacesOf(i, name) ==
    {k \in 1..Len(entities[i]._presets) :
        JStr(entities[i]._presets[k].name) = name}

\* C8 as claimed: discovery keeps presets of one name, and set preset mode
\* by a name the list holds more than once sends the command of the last
\* preset of that name.
C8_Original ==
    \A i \in Entities :
        PresetSent(i) =>
            \E k \in PlacesOf(i, lastOp.arg) :
                /\ \A m \in PlacesOf(i, lastOp.arg) : m <= k
                /\ lastCall.arg =
                       JStr("tune set " \o entities[i]._presets[k].command)

\* C8 as amended: discovery keeps presets of one name, and set preset mode
\* by a name the list holds more than once sends the command of the first
\* preset of that name: an earlier entry shadows the later ones.
C8_Theorem ==
    \A i \in Entities :
        PresetSent(i) =>
            /\ lastCall.fn = "send_command"
            /\ \E k \in PlacesOf(i, lastOp.arg) :
                   /\ \A m \in PlacesOf(i, lastOp.arg) : k <= m
                   /\ lastCall.arg =
                          JStr("tune set " \o entities[i]._presets[k].command)

\* A list with one name under two commands, and the first one sent
C8_Witness ==
    \E i \in Entities :
        /\ PresetSent(i)
        /\ Cardinality(PlacesOf(i, lastOp.arg)) = 2
        /\ entities[i]._presets[1].command = "fan 1"
        /\ entities[i]._presets[2].command = "fan 2"
        /\ PlacesOf(i, lastOp.arg) = {1, 2}
        /\ lastCall.arg = JStr("tune set fan 1")

\* A step of set preset mode, of an auto-discovery entity, by a name its
\* list does not hold
UnknownPresetStep ==
    /\ added
    /\ lastOp'.op = "set_preset_mode"
    /\ lastOp' # lastOp \/ apiCount' # apiCount
    /\ IsAutoDiscovery(entities[lastOp'.i].cls)
    /\ PlacesOf(lastOp'.i, lastOp'.arg) = {}

\* C9: on an auto-discovery entity, set preset mode by a name no preset of
\* the cached list has ends in the lookup failure: no command is sent, no
\* refresh is requested, and the cached list is as it was.
C9_Theorem ==
    [][UnknownPresetStep
       => /\ lastOp'.result = "UnboundLocalError"
          /\ apiCount' = apiCount
          /\ lastCall' = lastCall
          /\ refreshCount' = refreshCount
          /\ entities' = entities]_vars

\* An unknown name was asked of an entity with presets, and nothing was sent
C9_Witness ==
    \E i \in Entities :
        /\ IsAutoDiscovery(entities[i].cls)
        /\ Len(entities[i]._presets) > 0
        /\ lastOp = [op |-> "set_preset_mode", i |-> i, arg |-> JStr("away"),
                     result |-> "UnboundLocalError"]
        /\ apiCount = 0
        /\ lastCall = NoCall
        /\ refreshCount[i] = 0

\* C10: after construction no refresh of the snapshot and no operation
\* changes the cached list of an entity, or the preset_modes it reports.
C10_Theorem ==
    [][added
       => \A i \in 1..Len(entities) :
              /\ entities'[i]._presets = entities[i]._presets
              /\ preset_modes(entities'[i]) = preset_modes(entities[i])]_vars

\* After refreshes and operations the snapshot holds other presets than the
\* entity, which still has those of its construction
C10_Witness ==
    \E i \in Entities :
        /\ IsAutoDiscovery(entities[i].cls)
        /\ IsDict(data[i])
        /\ Get(data[i], "availableModes") = ThreeModes
        /\ refreshCount[i] = MaxCalls
        /\ lastOp.op = "update"
        /\ Len(entities[i]._presets) = 3
        /\ presets_discovery(entities[i].cls, data[i], devices[i])
               # entities[i]._presets
        /\ preset_modes(entities[i]) = Names(entities[i]._presets, 1)

===========================================================================
